---- MODULE Spec2Model ----
(***************************************************************************)
(* A model of the MIDI file decoder of src/src/midi/lib.rs: the header     *)
(* decoder, the variable-length quantity decoder, the message decoder,     *)
(* the track decoder's event loop and the file decoder's track loop.       *)
(*                                                                         *)
(* A byte buffer is a sequence of numbers in 0..255; the code's 0-based    *)
(* index i is position i + 1 of the sequence.  A function of the code      *)
(* that returns Option<T> is an operator that yields a record with         *)
(* tag "Some" or "None"; a task failure (a failed assert!, an index out    *)
(* of the buffer's bounds) is the third outcome, tag "fail".               *)
(***************************************************************************)
EXTENDS Integers, Sequences, FiniteSets, TLC

VARIABLES
    buf,          \* the byte buffer handed to the entry point
    pc,           \* position of the running function
    entry,        \* the function called on buf
    args,         \* its other arguments
    ret,          \* its result, once pc = "done"
    track_size,   \* parse_track: the declared length read from the chunk
    cont,         \* parse_track: ContinueTrackRead {offset, last_status}
    midi_events,  \* parse_track: the events appended so far
    error,        \* parse_track / parse_all_tracks: the error flag
    header,       \* parse_all_tracks: the MidiHeader it was given
    offset,       \* parse_all_tracks: offset of the next track chunk
    return_vec,   \* parse_all_tracks: the tracks appended so far
    iter,         \* parse_all_tracks: iterations of the for loop done
    calls         \* history: the outcome of each call made by the loop

vars == <<buf, pc, entry, args, ret, track_size, cont, midi_events, error,
          header, offset, return_vec, iter, calls>>

-----------------------------------------------------------------------------
(* Machine integers.  TLC's integers are 32 bits wide and signed, so a    *)
(* u32 of the code is held as itself below 2^31 and as its value minus     *)
(* 2^32 from 2^31 on (its two's complement reading): 0xFFFFFFFF is -1.     *)
(* Add32 and Lt32 are the code's + and < on u32 in that representation.    *)

RECURSIVE Pow2(_)
Pow2(n) == IF n = 0 THEN 1 ELSE 2 * Pow2(n - 1)

Half == Pow2(30)

\* a + b on u32: the sum modulo 2^32
Add32(a, b) ==
    IF a >= 0 /\ b >= 0 /\ a - Half >= Half - b
    THEN (((a - Half) + (b - Half)) - Half) - Half
    ELSE IF a < 0 /\ b < 0 /\ (a + Half) + (b + Half) < 0
    THEN (((a + Half) + (b + Half)) + Half) + Half
    ELSE a + b

\* a < b on u32
Lt32(a, b) ==
    IF (a >= 0) = (b >= 0) THEN a < b ELSE a >= 0

\* x << n on u32, 0 <= x, 0 <= n <= 31: the bits shifted past bit 31 are lost
Shl32(x, n) ==
    IF n = 0 THEN x
    ELSE LET rest == (x % Pow2(31 - n)) * Pow2(n)
             top == (x \div Pow2(31 - n)) % 2
         IN  IF top = 1 THEN ((rest - Half) - Half) ELSE rest

\* x >> n on u32 (a logical shift)
Shr32(x, n) ==
    IF x >= 0 THEN x \div Pow2(n)
    ELSE IF n = 0 THEN x
    ELSE (((x + Half) + Half) \div Pow2(n)) + Pow2(31 - n)

RECURSIVE BitOr(_, _)
BitOr(a, b) ==
    IF a = 0 THEN b
    ELSE IF b = 0 THEN a
    ELSE (IF a % 2 = 1 \/ b % 2 = 1 THEN 1 ELSE 0) + 2 * BitOr(a \div 2, b \div 2)

\* a | b on u32: bit 31 apart from the 31 bits below it
Or32(a, b) ==
    LET la == IF a >= 0 THEN a ELSE (a + Half) + Half
        lb == IF b >= 0 THEN b ELSE (b + Half) + Half
        low == BitOr(la, lb)
    IN  IF a < 0 \/ b < 0 THEN (low - Half) - Half ELSE low

RECURSIVE BitAnd(_, _)
BitAnd(a, b) ==
    IF a = 0 \/ b = 0 THEN 0
    ELSE (IF a % 2 = 1 /\ b % 2 = 1 THEN 1 ELSE 0) + 2 * BitAnd(a \div 2, b \div 2)

\* buf[i] of the code: a bounds-checked read
InBounds(b, i) == 0 <= i /\ i < Len(b)
At(b, i) == b[i + 1]

Some(v) == [tag |-> "Some", val |-> v]
Ok(v) == [tag |-> "ok", val |-> v]
None == [tag |-> "None"]
Fail(why) == [tag |-> "fail", why |-> why]

-----------------------------------------------------------------------------
(* Helper functions (lib.rs 461-526).                                      *)

u16_from_u8_at(b, o) ==
    BitOr((At(b, o) * 256) % Pow2(16), At(b, Add32(o, 1)))

u32_from_u8_at(b, o) ==
    Or32(Or32(Or32(Shl32(At(b, o), 24), Shl32(At(b, Add32(o, 1)), 16)),
              Shl32(At(b, Add32(o, 2)), 8)),
         At(b, Add32(o, 3)))

get_track_size(b, o) == u32_from_u8_at(b, Add32(o, 4))

\* any other value taken as the first format instead of None
file_format_from_u16_default(value) ==
    CASE value = 1 -> Some("SingleTrack")
      [] value = 2 -> Some("MultipleSynchronous")
      [] value = 3 -> Some("MultipleAsynchronous")
      [] OTHER -> Some("SingleTrack")

file_format_from_u16(value) ==
    CASE value = 1 -> Some("SingleTrack")
      [] value = 2 -> Some("MultipleSynchronous")
      [] value = 3 -> Some("MultipleAsynchronous")
      [] OTHER -> None

msb_is_one(number) == number > 127

lower_seven_bits(number) == BitAnd(number, 127)

is_invalid_status_byte(byte) ==
    byte \in (0 .. 127) \cup {244, 245, 247, 249}

-----------------------------------------------------------------------------
(* MidiMessage (lib.rs 80-120).  A message is a record of its variant, its *)
(* channel and its two data fields; a field a variant does not have is 0.  *)

Msg(v, c, a, b) == [variant |-> v, channel |-> c, d1 |-> a, d2 |-> b]

NoteOff(c, k, v) == Msg("NoteOff", c, k, v)
NoteOn(c, k, v) == Msg("NoteOn", c, k, v)
Aftertouch(c, k, v) == Msg("Aftertouch", c, k, v)
ControlChange(ch, c, v) == Msg("ControlChange", ch, c, v)
ProgramChange(c, p) == Msg("ProgramChange", c, p, 0)
ChannelPressure(c, v) == Msg("ChannelPressure", c, v, 0)
PitchWheel(c, l, m) == Msg("PitchWheel", c, l, m)
SystemExclusive == Msg("SystemExclusive", 0, 0, 0)
MidiTimeCode(mt, v) == Msg("MidiTimeCode", 0, mt, v)
SongPositionPointer(l, m) == Msg("SongPositionPointer", 0, l, m)
SongSelect(s) == Msg("SongSelect", 0, s, 0)
TuneRequest == Msg("TuneRequest", 0, 0, 0)
MidiClock == Msg("MidiClock", 0, 0, 0)
MidiStart == Msg("MidiStart", 0, 0, 0)
MidiContinue == Msg("MidiContinue", 0, 0, 0)
MidiStop == Msg("MidiStop", 0, 0, 0)
ActiveSense == Msg("ActiveSense", 0, 0, 0)
Reset == Msg("Reset", 0, 0, 0)
InvalidStatus == Msg("InvalidStatus", 0, 0, 0)

\* InvalidStatus given the initial last_status instead of 0xFD
get_status_byte_zero(message) ==
    LET c == message.channel
        v == message.variant
    IN  CASE v = "NoteOff" -> BitOr(128, c)
          [] v = "NoteOn" -> BitOr(144, c)
          [] v = "Aftertouch" -> BitOr(160, c)
          [] v = "ControlChange" -> BitOr(176, c)
          [] v = "ProgramChange" -> BitOr(192, c)
          [] v = "ChannelPressure" -> BitOr(208, c)
          [] v = "PitchWheel" -> BitOr(224, c)
          [] v = "SystemExclusive" -> 240
          [] v = "MidiTimeCode" -> 241
          [] v = "SongPositionPointer" -> 242
          [] v = "SongSelect" -> 243
          [] v = "TuneRequest" -> 246
          [] v = "MidiClock" -> 248
          [] v = "MidiStart" -> 250
          [] v = "MidiContinue" -> 251
          [] v = "MidiStop" -> 252
          [] v = "ActiveSense" -> 254
          [] v = "Reset" -> 255
          [] OTHER -> 0

get_status_byte(message) ==
    LET c == message.channel
        v == message.variant
    IN  CASE v = "NoteOff" -> BitOr(128, c)
          [] v = "NoteOn" -> BitOr(144, c)
          [] v = "Aftertouch" -> BitOr(160, c)
          [] v = "ControlChange" -> BitOr(176, c)
          [] v = "ProgramChange" -> BitOr(192, c)
          [] v = "ChannelPressure" -> BitOr(208, c)
          [] v = "PitchWheel" -> BitOr(224, c)
          [] v = "SystemExclusive" -> 240
          [] v = "MidiTimeCode" -> 241
          [] v = "SongPositionPointer" -> 242
          [] v = "SongSelect" -> 243
          [] v = "TuneRequest" -> 246
          [] v = "MidiClock" -> 248
          [] v = "MidiStart" -> 250
          [] v = "MidiContinue" -> 251
          [] v = "MidiStop" -> 252
          [] v = "ActiveSense" -> 254
          [] v = "Reset" -> 255
          [] OTHER -> 253

-----------------------------------------------------------------------------
(* parse_header (lib.rs 148-172).  The || chain reads buf[0], buf[1], ...  *)
(* in order and stops at the first byte that differs.                      *)

HeaderMagic == <<77, 84, 104, 100, 0, 0, 0, 6>>

Min(S) == CHOOSE x \in S : \A y \in S : x <= y

parse_header(b) ==
    LET bad == {i \in 0 .. 7 : ~InBounds(b, i) \/ At(b, i) # HeaderMagic[i + 1]}
    IN  IF bad # {}
        THEN IF InBounds(b, Min(bad)) THEN None ELSE Fail("index")
        ELSE IF Len(b) < 14 THEN Fail("index")
        ELSE LET ff == u16_from_u8_at(b, 8)
                 num_tracks == u16_from_u8_at(b, 10)
                 ticks_per_quarter == u16_from_u8_at(b, 12)
                 x == file_format_from_u16(ff)
             IN  IF x.tag = "None" THEN None
                 ELSE Some([file_format |-> x.val,
                            num_tracks |-> num_tracks,
                            ticks_per_quarter |-> ticks_per_quarter])

-----------------------------------------------------------------------------
(* parse_ticks (lib.rs 267-291).                                           *)

\* line 282: (time_buffer[loop_offset] << (8 * byte_correction)) >> byte_correction
contribution_noshift(entry_, byte_correction) ==
    Shl32(entry_, 8 * byte_correction)

contribution(entry_, byte_correction) ==
    Shr32(Shl32(entry_, 8 * byte_correction), byte_correction)

\* lines 278-285: the inner while loop
RECURSIVE combine_ticks(_, _, _, _)
combine_ticks(time_buffer, time_offset, loop_offset, time_ticks) ==
    IF loop_offset <= time_offset
    THEN LET byte_correction == time_offset - loop_offset
         IN  combine_ticks(time_buffer, time_offset, loop_offset + 1,
                 Or32(time_ticks,
                      contribution(time_buffer[loop_offset + 1], byte_correction)))
    ELSE time_ticks

\* lines 271-289: the outer loop
RECURSIVE ticks_loop(_, _, _, _)
ticks_loop(b, o, time_offset, time_buffer) ==
    IF ~(time_offset < 4) THEN Fail("assert")
    ELSE IF ~InBounds(b, Add32(o, time_offset)) THEN Fail("index")
    ELSE LET curr == At(b, Add32(o, time_offset))
             tb == [time_buffer EXCEPT ![time_offset + 1] = lower_seven_bits(curr)]
         IN  IF msb_is_one(curr)
             THEN ticks_loop(b, o, time_offset + 1, tb)
             ELSE Ok([ticks |-> combine_ticks(tb, time_offset, 0, 0),
                      offset |-> Add32(Add32(o, time_offset), 1)])

\* the returned offset left on the last byte of the delta-time
parse_ticks_last(b, o) ==
    LET r == ticks_loop(b, o, 0, <<0, 0, 0, 0>>)
    IN  IF r.tag = "ok"
        THEN Ok([ticks |-> r.val.ticks, offset |-> Add32(r.val.offset, -1)])
        ELSE r

parse_ticks(b, o) == ticks_loop(b, o, 0, <<0, 0, 0, 0>>)

-----------------------------------------------------------------------------
(* parse_message (lib.rs 293-391).                                         *)

\* running status stepping over the byte it found
effective_status_skip(b, start_offset, last_status) ==
    IF is_invalid_status_byte(At(b, start_offset))
    THEN [status_byte |-> last_status, data_offset |-> Add32(start_offset, 1)]
    ELSE [status_byte |-> At(b, start_offset),
          data_offset |-> Add32(start_offset, 1)]

\* lines 295-303: the status byte that governs the message, and where its
\* data starts
effective_status(b, start_offset, last_status) ==
    IF is_invalid_status_byte(At(b, start_offset))
    THEN [status_byte |-> last_status, data_offset |-> start_offset]
    ELSE [status_byte |-> At(b, start_offset),
          data_offset |-> Add32(start_offset, 1)]

\* lines 305-390: the match on status_pattern and channel_number
dispatch(b, status_byte, data_offset) ==
    LET status_pattern == BitAnd(status_byte, 240)
        channel_number == BitAnd(status_byte, 15)
        x == lower_seven_bits(At(b, data_offset))
        y == lower_seven_bits(At(b, Add32(data_offset, 1)))
        Two(m) == IF InBounds(b, data_offset) /\ InBounds(b, Add32(data_offset, 1))
                  THEN Some([message |-> m, offset |-> Add32(data_offset, 2)])
                  ELSE Fail("index")
        One(m) == IF InBounds(b, data_offset)
                  THEN Some([message |-> m, offset |-> Add32(data_offset, 1)])
                  ELSE Fail("index")
        Zero(m) == Some([message |-> m, offset |-> data_offset])
    IN  CASE status_pattern = 128 -> Two(NoteOff(channel_number, x, y))
          [] status_pattern = 144 -> Two(NoteOn(channel_number, x, y))
          [] status_pattern = 160 -> Two(Aftertouch(channel_number, x, y))
          [] status_pattern = 176 -> Two(ControlChange(channel_number, x, y))
          [] status_pattern = 192 -> One(ProgramChange(channel_number, x))
          [] status_pattern = 208 -> One(ChannelPressure(channel_number, x))
          [] status_pattern = 224 -> Two(PitchWheel(channel_number, x, y))
          [] status_pattern = 240 ->
                CASE channel_number = 0 -> None
                  [] channel_number = 1 -> Two(MidiTimeCode(x, y))
                  [] channel_number = 2 -> Two(SongPositionPointer(x, y))
                  [] channel_number = 3 -> One(SongSelect(x))
                  [] channel_number = 6 -> Zero(TuneRequest)
                  [] channel_number = 8 -> Zero(MidiClock)
                  [] channel_number = 10 -> Zero(MidiStart)
                  [] channel_number = 11 -> Zero(MidiContinue)
                  [] channel_number = 12 -> Zero(MidiStop)
                  [] channel_number = 14 -> Zero(ActiveSense)
                  [] channel_number = 15 -> Zero(Reset)
                  [] OTHER -> None
          [] OTHER -> Zero(InvalidStatus)

\* SystemExclusive returned as a message instead of None
parse_message_sysex(b, start_offset, last_status) ==
    IF ~InBounds(b, start_offset) THEN Fail("index")
    ELSE LET e == effective_status(b, start_offset, last_status)
         IN  IF e.status_byte = 240
             THEN Some([message |-> SystemExclusive, offset |-> e.data_offset])
             ELSE dispatch(b, e.status_byte, e.data_offset)

\* ProgramChange consuming two data bytes instead of one
parse_message_pc2(b, start_offset, last_status) ==
    IF ~InBounds(b, start_offset) THEN Fail("index")
    ELSE LET e == effective_status(b, start_offset, last_status)
             r == dispatch(b, e.status_byte, e.data_offset)
         IN  IF r.tag = "Some" /\ r.val.message.variant = "ProgramChange"
             THEN Some([message |-> r.val.message,
                        offset |-> Add32(e.data_offset, 2)])
             ELSE r

parse_message(b, start_offset, last_status) ==
    IF ~InBounds(b, start_offset) THEN Fail("index")
    ELSE LET e == effective_status(b, start_offset, last_status)
         IN  dispatch(b, e.status_byte, e.data_offset)

-----------------------------------------------------------------------------
(* parse_event (lib.rs 237-249).                                           *)

parse_event(b, c) ==
    LET t == parse_ticks(b, c.offset)
    IN  IF t.tag = "fail" THEN t
        ELSE LET m == parse_message(b, t.val.offset, c.last_status)
             IN  IF m.tag # "Some" THEN m
                 ELSE Some([event |-> [delta_time |-> t.val.ticks,
                                       message |-> m.val.message],
                            cont |-> [offset |-> m.val.offset,
                                      last_status |-> get_status_byte(m.val.message)]])

-----------------------------------------------------------------------------
(* parse_track (lib.rs 203-235).                                           *)

TrackMagic == <<77, 84, 114, 107>>

\* lines 205-215: the chunk ID test, which reads buf[0] .. buf[3], then the
\* declared size and the first ContinueTrackRead
track_enter(b, o) ==
    LET bad == {i \in 0 .. 3 : ~InBounds(b, i) \/ At(b, i) # TrackMagic[i + 1]}
    IN  IF bad # {}
        THEN IF InBounds(b, Min(bad)) THEN None ELSE Fail("index")
        ELSE IF ~InBounds(b, Add32(Add32(o, 4), 3)) THEN Fail("index")
        ELSE LET event_offset == Add32(o, 8)
             IN  Ok([track_size |-> get_track_size(b, o),
                     event_offset |-> event_offset,
                     cont |-> [offset |-> event_offset, last_status |-> 0]])

\* line 217: the while condition
loop_cond(c, event_offset, size) == Lt32(c.offset, Add32(event_offset, size))

\* the None arm leaving the error flag as it was
track_step_noerror(b, st) ==
    LET r == parse_event(b, st.cont)
    IN  CASE r.tag = "None" -> [st EXCEPT !.status = "break"]
          [] r.tag = "fail" -> [st EXCEPT !.status = "fail", !.why = r.why]
          [] OTHER -> [st EXCEPT !.midi_events = Append(@, r.val.event),
                                 !.cont = r.val.cont]

\* lines 218-228: one pass of the loop body over the loop's variables
track_step(b, st) ==
    LET r == parse_event(b, st.cont)
    IN  CASE r.tag = "None" -> [st EXCEPT !.error = TRUE, !.status = "break"]
          [] r.tag = "fail" -> [st EXCEPT !.status = "fail", !.why = r.why]
          [] OTHER -> [st EXCEPT !.midi_events = Append(@, r.val.event),
                                 !.cont = r.val.cont]

\* lines 230-233: match error
track_result(size, events, err) ==
    IF err THEN None
    ELSE Some([track_length |-> size, events |-> events])

RECURSIVE track_loop(_, _, _, _)
track_loop(b, event_offset, size, st) ==
    IF st.status = "fail" THEN Fail(st.why)
    ELSE IF st.status = "loop" /\ loop_cond(st.cont, event_offset, size)
    THEN track_loop(b, event_offset, size, track_step(b, st))
    ELSE track_result(size, st.midi_events, st.error)

parse_track(b, o) ==
    LET e == track_enter(b, o)
    IN  IF e.tag # "ok" THEN e
        ELSE track_loop(b, e.val.event_offset, e.val.track_size,
                        [cont |-> e.val.cont, midi_events |-> <<>>,
                         error |-> FALSE, status |-> "loop", why |-> ""])

-----------------------------------------------------------------------------
(* parse_all_tracks (lib.rs 176-200) and parse_file (lib.rs 122-144).      *)

\* the None arm leaving the error flag as it was
all_tracks_step_noerror(b, st) ==
    LET r == parse_track(b, st.offset)
    IN  CASE r.tag = "Some" ->
                [st EXCEPT !.return_vec = Append(@, r.val),
                           !.offset = Add32(@, Add32(r.val.track_length, 8))]
          [] r.tag = "None" -> st
          [] OTHER -> [st EXCEPT !.status = "fail", !.why = r.why]

\* lines 183-193: one pass of the for loop's body
all_tracks_step(b, st) ==
    LET r == parse_track(b, st.offset)
    IN  CASE r.tag = "Some" ->
                [st EXCEPT !.return_vec = Append(@, r.val),
                           !.offset = Add32(@, Add32(r.val.track_length, 8))]
          [] r.tag = "None" -> [st EXCEPT !.error = TRUE]
          [] OTHER -> [st EXCEPT !.status = "fail", !.why = r.why]

\* lines 195-199
all_tracks_result(vec, err) == IF err THEN None ELSE Some(vec)

\* lines 133-139: parse_file wraps the tracks into a MidiFile
file_result(h, r) ==
    IF r.tag = "Some" THEN Some([header |-> h, tracks |-> r.val]) ELSE r

-----------------------------------------------------------------------------
(* Bounds and the inputs drawn within them.                                *)

MaxPayload == 4    \* bytes of event data after a track chunk's 8-byte header
MaxTracks == 3     \* track chunks in a file buffer
MaxPad == 2        \* bytes before the position a leaf decoder is called at

Pad(n) == [i \in 1 .. n |-> 255]

\* a data byte (and one-byte delta-time), a ProgramChange status, the
\* SystemExclusive status, a reserved code and a MidiClock status
TrackBytes == {5, 195, 240, 247, 248}

DeclaredLengths ==
    {<<0, 0, 0, n>> : n \in 0 .. MaxPayload + 1} \cup {<<255, 255, 255, 255>>}

Payloads == [1 .. MaxPayload -> TrackBytes]

ConstantPayloads == {[i \in 1 .. MaxPayload |-> x] : x \in TrackBytes}

BadMagics == {[TrackMagic EXCEPT ![i] = 52] : i \in 1 .. 4}

\* parse_track(buf, 0) on a chunk with a wrong byte in its chunk ID, and on
\* a buffer that ends inside the chunk's header
BadChunks ==
    {m \o l \o p : m \in BadMagics, l \in DeclaredLengths, p \in ConstantPayloads}
    \cup {SubSeq(TrackMagic \o <<0, 0, 0, 0>>, 1, n) : n \in 0 .. 7}

\* the chunks of test_parse_track_all_complete and
\* test_parse_track_some_ommitted (lib.rs 641-656, 710-725)
TestChunks ==
    {TrackMagic \o <<0, 0, 0, 17>> \o
        <<80, 146, 5, 4, 80, 226, 6, 3, 131, 96, 162, 5, 4, 80, 130, 5, 4>>,
     TrackMagic \o <<0, 0, 0, 15>> \o
        <<80, 146, 5, 4, 131, 96, 38, 0, 80, 162, 5, 4, 80, 19, 5>>}

\* parse_track(buf, 4) on a chunk that follows four other bytes
ChunksAtFour ==
    {pre \o m \o <<0, 0, 0, MaxPayload>> \o p :
        pre \in {TrackMagic, <<77, 84, 104, 100>>},
        m \in BadMagics \cup {TrackMagic},
        p \in ConstantPayloads}

\* a 14-byte header, each field from a few values, one byte of the first
\* eight possibly wrong
HeaderBytes(fh, fl, nh, nl, th, tl) ==
    <<77, 84, 104, 100, 0, 0, 0, 6, fh, fl, nh, nl, th, tl>>

HeaderInputs ==
    {IF c = 0 THEN h ELSE [h EXCEPT ![c] = 52] :
        c \in 0 .. 8,
        h \in {HeaderBytes(fh, fl, nh, nl, th, tl) :
                 fh \in {0, 1}, fl \in 0 .. 4, nh \in {0, 10}, nl \in {0, 5},
                 th \in {0, 1}, tl \in {0, 160}}}

\* the canonical 1-4 byte encoding of v: 7 bits a byte, most significant
\* group first, the high bit set on all bytes but the last
EncodedLen(v) ==
    IF v < 128 THEN 1 ELSE IF v < 16384 THEN 2 ELSE IF v < 2097152 THEN 3 ELSE 4

RECURSIVE Pow128(_)
Pow128(n) == IF n = 0 THEN 1 ELSE 128 * Pow128(n - 1)

Encode(v) ==
    LET n == EncodedLen(v)
    IN  [i \in 1 .. n |->
            ((v \div Pow128(n - i)) % 128) + (IF i < n THEN 128 ELSE 0)]

Groups == {0, 1, 64, 127}

TickValues ==
    {g3 * 2097152 + g2 * 16384 + g1 * 128 + g0 :
        g3 \in Groups, g2 \in Groups, g1 \in Groups, g0 \in Groups}
    \cup {80, 480}

RawTickBytes == UNION {[1 .. n -> {131, 96}] : n \in 1 .. 5}

TicksInputs ==
    {[buf |-> Pad(o) \o Encode(v) \o t, offset |-> o, value |-> v] :
        o \in 0 .. MaxPad, v \in TickValues, t \in {<<>>, <<131>>}}
    \cup {[buf |-> r, offset |-> 0, value |-> -1] : r \in RawTickBytes}

\* parse_message: every first byte with a few last_status values, and the
\* bytes that select running status with every last_status
LastStatuses == {0, 146, 240, 253}
RunningBytes == {5, 244, 245, 247, 249}
DataTails == UNION {[1 .. n -> {5, 133}] : n \in 0 .. 2} \cup {<<5, 3>>, <<4, 9>>}

MessageInputs ==
    {[buf |-> Pad(o) \o <<x[1]>> \o t, start_offset |-> o, last_status |-> x[2]] :
        o \in 0 .. MaxPad,
        x \in ((0 .. 255) \X LastStatuses) \cup (RunningBytes \X (0 .. 255)),
        t \in DataTails}

\* a file: 14 bytes, then MaxTracks chunks whose declared length is the
\* length of their body
ChunkBodies == {<<>>, <<0, 248>>, <<0, 240>>, <<0, 195, 5>>, <<0, 195>>}

Chunk(body) == TrackMagic \o <<0, 0, 0, Len(body)>> \o body

RECURSIVE Chunks(_, _)
Chunks(f, n) == IF n = 0 THEN <<>> ELSE Chunks(f, n - 1) \o Chunk(f[n])

ChunkLists == [1 .. MaxTracks -> ChunkBodies]

FileInputs ==
    {[entry |-> "parse_file",
      buf |-> HeaderBytes(0, fl, 0, n, 0, 160) \o Chunks(f, MaxTracks),
      header |-> None] :
        fl \in {1, 4}, n \in 0 .. MaxTracks + 1, f \in ChunkLists}
    \cup
    {[entry |-> "parse_all_tracks",
      buf |-> TrackMagic \o <<0, 0, 0, 0, 0, 0, 0, 0, 0, 0>> \o Chunks(f, MaxTracks),
      header |-> [file_format |-> "SingleTrack", num_tracks |-> n,
                  ticks_per_quarter |-> 160]] :
        n \in 0 .. MaxTracks + 1, f \in ChunkLists}

-----------------------------------------------------------------------------
(* The state machines.                                                     *)

Pending == [tag |-> "pending"]

Idle ==
    /\ track_size = 0
    /\ cont = [offset |-> 0, last_status |-> 0]
    /\ midi_events = <<>>
    /\ error = FALSE
    /\ header = None
    /\ offset = 0
    /\ return_vec = <<>>
    /\ iter = 0
    /\ calls = <<>>
    /\ ret = Pending

\* ---- parse_track, one action per step of its body

Init ==
    /\ \/ \E l \in DeclaredLengths, p \in Payloads :
            /\ buf = TrackMagic \o l \o p
            /\ args = [offset |-> 0]
       \/ /\ buf \in BadChunks \cup TestChunks
          /\ args = [offset |-> 0]
       \/ /\ buf \in ChunksAtFour
          /\ args = [offset |-> 4]
    /\ entry = "parse_track"
    /\ pc = "parse_track"
    /\ Idle

TrackEnter ==
    /\ entry = "parse_track" /\ pc = "parse_track"
    /\ \E e \in {track_enter(buf, args.offset)} :
           IF e.tag = "ok"
           THEN /\ track_size' = e.val.track_size
                /\ cont' = e.val.cont
                /\ pc' = "while"
                /\ ret' = ret
           ELSE /\ ret' = e
                /\ pc' = "done"
                /\ UNCHANGED <<track_size, cont>>
    /\ midi_events' = <<>>
    /\ error' = FALSE
    /\ UNCHANGED <<buf, entry, args, header, offset, return_vec, iter, calls>>

TrackEvent ==
    /\ entry = "parse_track" /\ pc = "while"
    /\ loop_cond(cont, Add32(args.offset, 8), track_size)
    /\ \E n \in {track_step(buf, [cont |-> cont, midi_events |-> midi_events,
                                  error |-> error, status |-> "loop", why |-> ""])} :
           /\ cont' = n.cont
           /\ midi_events' = n.midi_events
           /\ error' = n.error
           /\ pc' = CASE n.status = "loop" -> "while"
                      [] n.status = "break" -> "match_error"
                      [] OTHER -> "done"
           /\ ret' = IF n.status = "fail" THEN Fail(n.why) ELSE ret
    /\ calls' = Append(calls, [offset |-> cont.offset,
                               last_status |-> cont.last_status,
                               tag |-> parse_event(buf, cont).tag])
    /\ UNCHANGED <<buf, entry, args, track_size, header, offset, return_vec, iter>>

TrackLoopExit ==
    /\ entry = "parse_track" /\ pc = "while"
    /\ ~loop_cond(cont, Add32(args.offset, 8), track_size)
    /\ pc' = "match_error"
    /\ UNCHANGED <<buf, entry, args, ret, track_size, cont, midi_events, error,
                   header, offset, return_vec, iter, calls>>

TrackReturn ==
    /\ entry = "parse_track" /\ pc = "match_error"
    /\ ret' = track_result(track_size, midi_events, error)
    /\ pc' = "done"
    /\ UNCHANGED <<buf, entry, args, track_size, cont, midi_events, error,
                   header, offset, return_vec, iter, calls>>

Next == TrackEnter \/ TrackEvent \/ TrackLoopExit \/ TrackReturn

Spec == Init /\ [][Next]_vars

\* ---- parse_file and parse_all_tracks, one action per pass of the for loop

InitFile ==
    /\ \E x \in FileInputs :
        /\ buf = x.buf
        /\ entry = x.entry
        /\ args = [header |-> x.header]
        /\ pc = IF x.entry = "parse_file" THEN "parse_header" ELSE "for"
        /\ header = x.header
        /\ offset = IF x.entry = "parse_file" THEN 0 ELSE 14
    /\ track_size = 0
    /\ cont = [offset |-> 0, last_status |-> 0]
    /\ midi_events = <<>>
    /\ error = FALSE
    /\ return_vec = <<>>
    /\ iter = 0
    /\ calls = <<>>
    /\ ret = Pending

FileHeader ==
    /\ entry = "parse_file" /\ pc = "parse_header"
    /\ \E h \in {parse_header(buf)} :
           IF h.tag = "Some"
           THEN /\ header' = h.val
                /\ offset' = 14
                /\ pc' = "for"
                /\ ret' = ret
           ELSE /\ ret' = h
                /\ pc' = "done"
                /\ UNCHANGED <<header, offset>>
    /\ return_vec' = <<>>
    /\ error' = FALSE
    /\ UNCHANGED <<buf, entry, args, track_size, cont, midi_events, iter, calls>>

AllTracksIter ==
    /\ pc = "for"
    /\ iter < header.num_tracks
    /\ \E n \in {all_tracks_step(buf, [offset |-> offset, return_vec |-> return_vec,
                                       error |-> error, status |-> "loop", why |-> ""])} :
           /\ offset' = n.offset
           /\ return_vec' = n.return_vec
           /\ error' = n.error
           /\ pc' = IF n.status = "fail" THEN "done" ELSE "for"
           /\ ret' = IF n.status = "fail" THEN Fail(n.why) ELSE ret
    /\ iter' = iter + 1
    /\ calls' = Append(calls, [offset |-> offset,
                               tag |-> parse_track(buf, offset).tag])
    /\ UNCHANGED <<buf, entry, args, track_size, cont, midi_events, header>>

AllTracksReturn ==
    /\ pc = "for"
    /\ ~(iter < header.num_tracks)
    /\ ret' = IF entry = "parse_file"
              THEN file_result(header, all_tracks_result(return_vec, error))
              ELSE all_tracks_result(return_vec, error)
    /\ pc' = "done"
    /\ UNCHANGED <<buf, entry, args, track_size, cont, midi_events, error,
                   header, offset, return_vec, iter, calls>>

NextFile == FileHeader \/ AllTracksIter \/ AllTracksReturn

SpecFile == InitFile /\ [][NextFile]_vars

\* ---- the leaf decoders, each called once on its input

InitHeader ==
    /\ buf \in HeaderInputs
    /\ args = <<>>
    /\ entry = "parse_header"
    /\ pc = "call"
    /\ Idle

CallParseHeader ==
    /\ entry = "parse_header" /\ pc = "call"
    /\ ret' = parse_header(buf)
    /\ pc' = "done"
    /\ UNCHANGED <<buf, entry, args, track_size, cont, midi_events, error,
                   header, offset, return_vec, iter, calls>>

SpecHeader == InitHeader /\ [][CallParseHeader]_vars

InitTicks ==
    /\ \E x \in TicksInputs :
        /\ buf = x.buf
        /\ args = [offset |-> x.offset, value |-> x.value]
    /\ entry = "parse_ticks"
    /\ pc = "call"
    /\ Idle

CallParseTicks ==
    /\ entry = "parse_ticks" /\ pc = "call"
    /\ ret' = parse_ticks(buf, args.offset)
    /\ pc' = "done"
    /\ UNCHANGED <<buf, entry, args, track_size, cont, midi_events, error,
                   header, offset, return_vec, iter, calls>>

SpecTicks == InitTicks /\ [][CallParseTicks]_vars

InitMessage ==
    /\ \E x \in MessageInputs :
        /\ buf = x.buf
        /\ args = [start_offset |-> x.start_offset, last_status |-> x.last_status]
    /\ entry = "parse_message"
    /\ pc = "call"
    /\ Idle

CallParseMessage ==
    /\ entry = "parse_message" /\ pc = "call"
    /\ ret' = parse_message(buf, args.start_offset, args.last_status)
    /\ pc' = "done"
    /\ UNCHANGED <<buf, entry, args, track_size, cont, midi_events, error,
                   header, offset, return_vec, iter, calls>>

SpecMessage == InitMessage /\ [][CallParseMessage]_vars

-----------------------------------------------------------------------------
(* What the specification says of the format, written without the          *)
(* decoder: the status table of section 6 and the running status rule of   *)
(* section 4.3.                                                            *)

ReservedCodes == {244, 245, 247, 249}

ChannelVoice ==
    {"NoteOff", "NoteOn", "Aftertouch", "ControlChange", "ProgramChange",
     "ChannelPressure", "PitchWheel"}

TableStatuses ==
    (128 .. 239) \cup {241, 242, 243, 246, 248, 250, 251, 252, 254, 255}

TableVariant(s) ==
    CASE s \in 128 .. 143 -> "NoteOff"
      [] s \in 144 .. 159 -> "NoteOn"
      [] s \in 160 .. 175 -> "Aftertouch"
      [] s \in 176 .. 191 -> "ControlChange"
      [] s \in 192 .. 207 -> "ProgramChange"
      [] s \in 208 .. 223 -> "ChannelPressure"
      [] s \in 224 .. 239 -> "PitchWheel"
      [] s = 241 -> "MidiTimeCode"
      [] s = 242 -> "SongPositionPointer"
      [] s = 243 -> "SongSelect"
      [] s = 246 -> "TuneRequest"
      [] s = 248 -> "MidiClock"
      [] s = 250 -> "MidiStart"
      [] s = 251 -> "MidiContinue"
      [] s = 252 -> "MidiStop"
      [] s = 254 -> "ActiveSense"
      [] s = 255 -> "Reset"
      [] OTHER -> "none"

DataBytes(variant) ==
    CASE variant \in {"NoteOff", "NoteOn", "Aftertouch", "ControlChange",
                      "PitchWheel", "MidiTimeCode", "SongPositionPointer"} -> 2
      [] variant \in {"ProgramChange", "ChannelPressure", "SongSelect"} -> 1
      [] OTHER -> 0

\* the message the table gives for status s followed by the raw bytes r1, r2
TableMessage(s, r1, r2) ==
    LET v == TableVariant(s)
    IN  [variant |-> v,
         channel |-> IF v \in ChannelVoice THEN s % 16 ELSE 0,
         d1 |-> IF DataBytes(v) >= 1 THEN r1 % 128 ELSE 0,
         d2 |-> IF DataBytes(v) >= 2 THEN r2 % 128 ELSE 0]

OmitsStatus(byte) == byte < 128 \/ byte \in ReservedCodes

\* the byte of b at index i, 0 past the end of b
ByteOr0(b, i) == IF i < Len(b) THEN b[i + 1] ELSE 0

BigEndian16(b, i) == b[i + 1] * 256 + b[i + 2]

BigEndian32(b, i) ==
    ((b[i + 1] * 256 + b[i + 2]) * 256 + b[i + 3]) * 256 + b[i + 4]

-----------------------------------------------------------------------------
(* C1.  A file buffer: a valid header declaring N >= 1 tracks, then N      *)
(* contiguous well-formed chunks.                                          *)

ValidHeaderPrefix(b) ==
    /\ Len(b) >= 14
    /\ SubSeq(b, 1, 8) = <<77, 84, 104, 100, 0, 0, 0, 6>>
    /\ BigEndian16(b, 8) \in {1, 2, 3}

RECURSIVE ChunkStart(_, _)
ChunkStart(b, i) ==
    IF i = 1 THEN 14
    ELSE LET o == ChunkStart(b, i - 1)
         IN  IF o + 8 <= Len(b) THEN o + 8 + BigEndian32(b, o + 4) ELSE Len(b)

ChunkAt(b, o) == SubSeq(b, o + 1, o + 8 + BigEndian32(b, o + 4))

\* the chunk at o lies in b, starts with "MTrk" and decodes on its own
WellFormedChunk(b, o) ==
    /\ o + 8 <= Len(b)
    /\ o + 8 + BigEndian32(b, o + 4) <= Len(b)
    /\ SubSeq(b, o + 1, o + 4) = TrackMagic
    /\ parse_track(ChunkAt(b, o), 0).tag = "Some"

WellFormedFile(b) ==
    /\ ValidHeaderPrefix(b)
    /\ BigEndian16(b, 10) >= 1
    /\ \A i \in 1 .. BigEndian16(b, 10) : WellFormedChunk(b, ChunkStart(b, i))

\* C1: parse_file on a valid header declaring N >= 1 tracks followed by N
\* contiguous well-formed chunks returns exactly N tracks in file order, track
\* i being the decode of the chunk at 14 + the sum over j < i of
\* (8 + byte_length_j).
C1_FileDecoderReturnsAllTracks ==
    (pc = "done" /\ entry = "parse_file" /\ WellFormedFile(buf)) =>
        /\ ret.tag = "Some"
        /\ Len(ret.val.tracks) = BigEndian16(buf, 10)
        /\ \A i \in 1 .. BigEndian16(buf, 10) :
               ret.val.tracks[i] = parse_track(ChunkAt(buf, ChunkStart(buf, i)), 0).val

-----------------------------------------------------------------------------
(* C2, C3.  The events of one track.  calls[i] holds the ContinueTrackRead *)
(* the i-th parse_event was given and how it ended; the first              *)
(* Len(midi_events) calls are those that returned an event.                *)

\* index of the byte that follows the delta-time of the i-th event
StatusPosition(i) == parse_ticks(buf, calls[i].offset).val.offset

\* the offset the i-th event left in the context
OffsetAfter(i) == IF i < Len(calls) THEN calls[i + 1].offset ELSE cont.offset

\* C2: for each decoded event, if the byte after the delta-time is below 0x80
\* or one of 0xF4, 0xF5, 0xF7, 0xF9, the message has the variant and channel
\* of the event before it in the track and that byte is its first data byte;
\* otherwise the byte is the status, the message is the table's for that
\* byte, and the data starts one byte later.  An event that yields no message
\* is one whose status, found by the same rule, has no entry in the table.
C2_RunningStatus ==
    /\ \A i \in 1 .. Len(midi_events) :
        LET p == StatusPosition(i)
            byte == At(buf, p)
            m == midi_events[i].message
        IN  IF OmitsStatus(byte)
            THEN /\ i > 1 =>
                      /\ m.variant = midi_events[i - 1].message.variant
                      /\ m.channel = midi_events[i - 1].message.channel
                 /\ DataBytes(m.variant) >= 1 => m.d1 = byte % 128
                 /\ OffsetAfter(i) = p + DataBytes(m.variant)
            ELSE /\ m = TableMessage(byte, ByteOr0(buf, p + 1), ByteOr0(buf, p + 2))
                 /\ OffsetAfter(i) = p + 1 + DataBytes(m.variant)
    /\ \A i \in 1 .. Len(calls) :
        calls[i].tag = "None" =>
            LET byte == At(buf, StatusPosition(i))
                s == IF ~OmitsStatus(byte) THEN byte
                     ELSE IF i = 1 THEN 0
                     ELSE get_status_byte(midi_events[i - 1].message)
            IN  s \notin TableStatuses

\* a second or later event that omits its status and carries data
C2_Witness ==
    \E i \in 2 .. Len(midi_events) :
        /\ OmitsStatus(At(buf, StatusPosition(i)))
        /\ midi_events[i].message.variant = "NoteOn"
        /\ midi_events[i].message.channel = 2
        /\ midi_events[i].message.d1 = 38

\* C3: context.last_status is never the value reserved for InvalidStatus
\* (0xFD), and no event is decoded with such a last_status.
C3_LastStatusNeverSentinel ==
    /\ cont.last_status # 253
    /\ \A i \in 1 .. Len(calls) : calls[i].last_status # 253

-----------------------------------------------------------------------------
(* C4.  The tracks of one file.  calls[i] holds the offset the i-th        *)
(* parse_track was called at and how it ended.                             *)

ReturnedTracks == IF entry = "parse_file" THEN ret.val.tracks ELSE ret.val

\* C4: when parse_track returns None in any of the num_tracks iterations,
\* parse_all_tracks returns None and parse_file returns no MidiFile, whatever
\* the other iterations returned; a returned list holds num_tracks tracks.
C4_AllOrNothing ==
    pc = "done" =>
        /\ (\E i \in 1 .. Len(calls) : calls[i].tag = "None") => ret.tag = "None"
        /\ ret.tag = "Some" =>
              /\ Len(ReturnedTracks) = header.num_tracks
              /\ \A i \in 1 .. Len(calls) : calls[i].tag = "Some"

\* three iterations, the first decoded and a later one failed
C4_Witness ==
    /\ pc = "done"
    /\ Len(calls) = 3
    /\ header.num_tracks = 3
    /\ calls[1].tag = "Some"
    /\ calls[3].tag = "None"
    /\ Len(return_vec) >= 1
    /\ ret.tag = "None"

-----------------------------------------------------------------------------
(* C5.  parse_track, once it has returned.                                 *)

-----------------------------------------------------------------------------
(* C6, C7.  parse_ticks.                                                   *)

\* C6: parse_ticks on the canonical encoding of v, 0 <= v < 2^28, placed at
\* offset o returns v and o + n, n the number of bytes of the encoding; 0x50
\* gives 80 and one byte, 0x83 0x60 gives 480 and two bytes.
C6_VlqRoundTrip ==
    (entry = "parse_ticks" /\ pc = "done" /\ args.value >= 0) =>
        /\ ret = Ok([ticks |-> args.value,
                     offset |-> args.offset + EncodedLen(args.value)])
        /\ args.value = 80 => SubSeq(buf, args.offset + 1, args.offset + 1) = <<80>>
        /\ args.value = 480 =>
              SubSeq(buf, args.offset + 1, args.offset + 2) = <<131, 96>>

\* a four-byte encoding decoded at an offset other than 0
C6_Witness ==
    /\ entry = "parse_ticks" /\ pc = "done"
    /\ args.value = 127 * 2097152 + 64 * 16384 + 1
    /\ args.offset = 2
    /\ ret.tag = "ok"
    /\ ret.val.offset = 6

\* four bytes with their high bit set at index o of b
FourContinuationBytes(b, o) ==
    \A k \in 0 .. 3 : InBounds(b, o + k) /\ At(b, o + k) >= 128

\* C7: when the four bytes at a delta-time position all have their high bit
\* set, the failure is a failure result: the track decoder returns None.
C7_MalformedVlqFailsTrack ==
    (/\ entry = "parse_track" /\ pc = "done"
     /\ Len(calls) >= 1
     /\ calls[Len(calls)].tag # "Some"
     /\ FourContinuationBytes(buf, calls[Len(calls)].offset)) =>
        ret.tag = "None"

-----------------------------------------------------------------------------
(* C8.  parse_header on a 14-byte prefix.                                  *)

FormatName(code) ==
    CASE code = 1 -> "SingleTrack"
      [] code = 2 -> "MultipleSynchronous"
      [] code = 3 -> "MultipleAsynchronous"
      [] OTHER -> "none"

\* C8: parse_header succeeds if and only if bytes 0-3 are "MThd", bytes 4-7
\* are 00 00 00 06 and the big-endian value of bytes 8-9 is 1, 2 or 3; on
\* success the format is that code, track_count the big-endian value of bytes
\* 10-11 and ticks_per_quarter_note that of bytes 12-13; on failure it
\* returns no header.
C8_HeaderDecoder ==
    (entry = "parse_header" /\ pc = "done" /\ Len(buf) >= 14) =>
        IF ValidHeaderPrefix(buf)
        THEN ret = Some([file_format |-> FormatName(BigEndian16(buf, 8)),
                         num_tracks |-> BigEndian16(buf, 10),
                         ticks_per_quarter |-> BigEndian16(buf, 12)])
        ELSE ret = None

\* the header of test_parse_header_standard, with another format code
C8_Witness ==
    /\ entry = "parse_header" /\ pc = "done"
    /\ SubSeq(buf, 9, 14) = <<0, 3, 10, 5, 1, 160>>
    /\ ret.tag = "Some"
    /\ ret.val.file_format = "MultipleAsynchronous"
    /\ ret.val.num_tracks = 2565
    /\ ret.val.ticks_per_quarter = 416

-----------------------------------------------------------------------------
(* C9, C10.  parse_message.                                                *)

\* the status that governs the message at start_offset, and where its data
\* starts, by the rule of section 4.3
GoverningStatus(b, start_offset, last_status) ==
    IF OmitsStatus(At(b, start_offset)) THEN last_status ELSE At(b, start_offset)

DataStart(b, start_offset) ==
    IF OmitsStatus(At(b, start_offset)) THEN start_offset ELSE start_offset + 1

\* C9: for every governing status s of the table (0x80-0xEF, 0xF1, 0xF2,
\* 0xF3, 0xF6, 0xF8, 0xFA, 0xFB, 0xFC, 0xFE, 0xFF) whose data bytes are in the
\* buffer, parse_message returns the table's variant for s, channel s & 0x0F
\* for the Channel Voice variants, each data field the raw byte with its top
\* bit cleared, and the offset of the data start plus 2, 1 or 0.
C9_MessageTable ==
    (entry = "parse_message" /\ pc = "done" /\ InBounds(buf, args.start_offset)) =>
        LET s == GoverningStatus(buf, args.start_offset, args.last_status)
            d == DataStart(buf, args.start_offset)
            n == DataBytes(TableVariant(s))
        IN  (s \in TableStatuses /\ d + n <= Len(buf)) =>
                ret = Some([message |-> TableMessage(s, ByteOr0(buf, d),
                                                      ByteOr0(buf, d + 1)),
                            offset |-> d + n])

\* a NoteOff on channel 8 whose first data byte has its top bit set
C9_Witness ==
    /\ entry = "parse_message" /\ pc = "done"
    /\ args.start_offset = 1
    /\ Len(buf) = 4
    /\ SubSeq(buf, 2, 4) = <<136, 133, 5>>
    /\ ret.tag = "Some"
    /\ ret.val.message = NoteOff(8, 5, 5)
    /\ ret.val.offset = 4

\* C10: whenever the governing status is 0xF0, parse_message returns None,
\* for every last_status and every following bytes; a track with 0xF0 in a
\* status position fails, and no event list holds a SystemExclusive message.
C10_SystemExclusiveFails ==
    /\ (entry = "parse_message" /\ pc = "done" /\ InBounds(buf, args.start_offset)) =>
          /\ GoverningStatus(buf, args.start_offset, args.last_status) = 240 =>
                ret = None
          /\ ret.tag = "Some" => ret.val.message.variant # "SystemExclusive"
    /\ entry = "parse_track" =>
          /\ \A i \in 1 .. Len(calls) :
                LET t == parse_ticks(buf, calls[i].offset)
                IN  (/\ t.tag = "ok"
                     /\ InBounds(buf, t.val.offset)
                     /\ At(buf, t.val.offset) = 240) =>
                        /\ calls[i].tag = "None"
                        /\ pc = "done" => ret = None
          /\ \A i \in 1 .. Len(midi_events) :
                midi_events[i].message.variant # "SystemExclusive"

\* 0xF0 carried as running status over two data bytes
C10_Witness ==
    /\ entry = "parse_message" /\ pc = "done"
    /\ args.last_status = 240
    /\ At(buf, args.start_offset) = 5
    /\ Len(buf) = args.start_offset + 3
    /\ ret = None

\* parse_message and parse_track together
InitMessageTrack == InitMessage \/ Init

NextMessageTrack == CallParseMessage \/ Next

SpecMessageTrack == InitMessageTrack /\ [][NextMessageTrack]_vars

-----------------------------------------------------------------------------
(* C11.  parse_track called at a chunk start other than 0.                 *)

\* the declared length at index o of b is 2^31 or more (u32_from_u8_at holds
\* such a value as the value less 2^32)
HighLength(b, o) == At(b, o + 4) >= 128

\* the loop variables as line 215 leaves them, no event read yet
AtLoopEntry == pc = "while" /\ Len(calls) = 0

\* C11: parse_track called at chunk start o returns None when the four bytes
\* at o .. o+3 are not "MTrk", whatever the bytes before the chunk are;
\* otherwise it goes on to the events with the declared size the big-endian
\* value of the bytes at o+4 .. o+7 and the context {offset = o + 8,
\* last_status = 0}, and a None it returns comes from an event.
C11_TrackMagicAtOffset ==
    (/\ entry = "parse_track" /\ pc # "parse_track"
     /\ Len(buf) >= args.offset + 8) =>
        LET o == args.offset
        IN  IF SubSeq(buf, o + 1, o + 4) # TrackMagic
            THEN pc = "done" /\ ret = None /\ Len(calls) = 0
            ELSE /\ ~HighLength(buf, o) => track_size = BigEndian32(buf, o + 4)
                 /\ AtLoopEntry => cont = [offset |-> o + 8, last_status |-> 0]
                 /\ ret = None =>
                       Len(calls) >= 1 /\ calls[Len(calls)].tag = "None"

-----------------------------------------------------------------------------
(* C12.  get_status_byte against the dispatch of parse_message.            *)

\* the status that governed the i-th event of the track: the byte after its
\* delta-time, or the last_status its call was given
EventStatus(i) ==
    GoverningStatus(buf, StatusPosition(i), calls[i].last_status)

\* C12: whenever parse_message returns a message m for governing status s,
\* get_status_byte(m) = s; and after every decoded event of a track the
\* context's last_status is the status that governed that event.
C12_InverseOfDispatch ==
    /\ (entry = "parse_message" /\ pc = "done" /\ ret.tag = "Some") =>
          get_status_byte(ret.val.message) =
              GoverningStatus(buf, args.start_offset, args.last_status)
    /\ entry = "parse_track" =>
          \A i \in 1 .. Len(midi_events) :
              (IF i < Len(calls) THEN calls[i + 1].last_status
               ELSE cont.last_status) = EventStatus(i)

-----------------------------------------------------------------------------
(* C13.  The bound of the event loop.                                      *)

\* x < o + 8 + byte_length over the integers, byte_length the big-endian
\* value of the bytes at o+4 .. o+7 of b; a byte_length of 2^31 or more is
\* above every index the buffers here have
BeforePayloadEnd(x, b, o) ==
    HighLength(b, o) \/ x < o + 8 + BigEndian32(b, o + 4)

\* parse_track went past the chunk ID test and read the size
LoopEntered ==
    /\ entry = "parse_track"
    /\ pc # "parse_track"
    /\ track_enter(buf, args.offset).tag = "ok"

\* C13: an event is decoded only while context.offset < chunk_start + 8 +
\* byte_length, and the track completes exactly when the offset is first at
\* or past that bound, wherever the last event stopped; the returned track
\* carries the declared byte_length, and a chunk declaring 0 bytes completes
\* with no events.
C13_LoopBound ==
    LoopEntered =>
        LET o == args.offset
        IN  /\ \A i \in 1 .. Len(calls) : BeforePayloadEnd(calls[i].offset, buf, o)
            /\ (pc = "match_error" /\ ~error) => ~BeforePayloadEnd(cont.offset, buf, o)
            /\ (pc = "done" /\ ret.tag = "Some") =>
                  /\ ~BeforePayloadEnd(cont.offset, buf, o)
                  /\ ~HighLength(buf, o) =>
                        ret.val.track_length = BigEndian32(buf, o + 4)
            /\ (pc = "done" /\ ~HighLength(buf, o) /\ BigEndian32(buf, o + 4) = 0) =>
                  ret = Some([track_length |-> 0, events |-> <<>>])

-----------------------------------------------------------------------------
(* C14.  Progress of the event loop.  parse_track runs on one thread and   *)
(* nothing suspends it: a call that has not returned takes its next step.  *)
(* Next is enabled exactly when pc # "done" (the guards of TrackEnter,      *)
(* TrackReturn and of TrackEvent and TrackLoopExit together test pc alone), *)
(* so weak fairness of Next is that a run is done or steps again.          *)

Running == []<>(pc = "done") \/ []<><<Next>>_vars

FairSpec == Spec /\ Running

\* every decoded event moved the context's offset forward, its delta-time by
\* one byte or more and its message by none or more; and no more events were
\* asked for than the chunk declares bytes
EventsAdvance ==
    /\ \A i \in 1 .. Len(midi_events) :
          /\ StatusPosition(i) >= calls[i].offset + 1
          /\ OffsetAfter(i) >= StatusPosition(i)
          /\ OffsetAfter(i) >= calls[i].offset + 1
    /\ (LoopEntered /\ ~HighLength(buf, args.offset)) =>
          Len(calls) <= BigEndian32(buf, args.offset + 4)

\* parse_track is over: it returned a track or None, or the task failed
Terminated == pc = "done" /\ ret.tag \in {"Some", "None", "fail"}

\* C14: every decoded event increases context.offset by at least 1, the
\* delta-time taking a byte even when the message takes none; for every buffer
\* and byte_length the loop ends after at most byte_length events.
C14_ProgressAndTermination == []EventsAdvance /\ <>Terminated

\* a completed track whose second event, a MidiClock under running status,
\* took the one byte of its delta-time and no other
C14_Witness ==
    /\ entry = "parse_track" /\ pc = "done"
    /\ ret.tag = "Some"
    /\ Len(midi_events) = 2
    /\ midi_events[2].message = MidiClock
    /\ OmitsStatus(At(buf, StatusPosition(2)))
    /\ cont.offset = calls[2].offset + 1

-----------------------------------------------------------------------------
(* C15.  Where InvalidStatus can stand in a track's event list.            *)

RecognizedVariants == {TableVariant(st) : st \in TableStatuses}

\* a last_status that parse_message can turn into a message or a failure,
\* never into InvalidStatus
CarriesStatus(st) == st >= 128 /\ st \notin {240} \cup ReservedCodes

\* C15: an InvalidStatus message is only ever the first event of a track, and
\* only when that event omits its status byte while last_status is the
\* initial 0; from the second event on last_status is at least 0x80 and none
\* of 0xF0, 0xF4, 0xF5, 0xF7, 0xF9, so every later event is a recognized
\* message or a failed decode.
C15_InvalidStatusOnlyFirst ==
    entry = "parse_track" =>
        /\ Len(calls) >= 1 => calls[1].last_status = 0
        /\ (/\ Len(midi_events) >= 1
            /\ midi_events[1].message.variant = "InvalidStatus") =>
              OmitsStatus(At(buf, StatusPosition(1)))
        /\ \A i \in 2 .. Len(calls) : CarriesStatus(calls[i].last_status)
        /\ Len(midi_events) >= 1 => CarriesStatus(cont.last_status)
        /\ \A i \in 2 .. Len(midi_events) :
              midi_events[i].message.variant \in RecognizedVariants

\* a first event that is InvalidStatus, then an event that omits its status
\* again and fails
C15_Witness ==
    /\ entry = "parse_track" /\ pc = "done"
    /\ Len(midi_events) = 1
    /\ midi_events[1].message = InvalidStatus
    /\ Len(calls) = 2
    /\ calls[2].tag = "None"
    /\ OmitsStatus(At(buf, StatusPosition(2)))
    /\ ret = None

====
